---- MODULE Spec2Model ----
(***************************************************************************)
(* The turn-execution engine of GeminiTaskEngine (src/src/core/            *)
(* TaskEngine.ts): executeTask, the turn loop of executeTaskInternal,      *)
(* updateStatus / updateToolStatus, calculateProgress and abort, as a      *)
(* state machine.  One action is one stretch of code between two awaits of *)
(* the engine; the collaborators (configuration builder, model session,    *)
(* tool executor, strategy, continuation oracle, telemetry) are inputs     *)
(* drawn from small sets.                                                  *)
(***************************************************************************)
EXTENDS Integers, Sequences, FiniteSets, TLC

(***************************************************************************)
(* Program constants and bounds.                                           *)
(***************************************************************************)
\* private readonly MAX_TURNS = 200
MAX_TURNS == 200

\* progress.maxTurns of the initial status, and the "|| 50" default
DEFAULT_MAX_TURNS == 50

\* largest caller-configured soft limit explored in short sessions
MaxSoftLimit == 2

\* most chunks one response stream delivers
MaxChunks == 2

\* most tool invocations the model emits during one execution
MaxToolCalls == 2

\* largest currentTurn and largest soft limit given to the fallback progress
MaxTurnArgument == 8

MaxLimitArgument == 4

(***************************************************************************)
(* Optional values: undefined is <<>>, a present value v is <<v>>.         *)
(***************************************************************************)
None == <<>>

Some(v) == <<v>>

(***************************************************************************)
(* Texts are sequences of tokens; s.includes(t) and /t/.test(s) become     *)
(* membership of a token.                                                  *)
(***************************************************************************)
Contains(msg, tok) == \E i \in 1..Len(msg) : msg[i] = tok

\* 'Reached max session turns for this session.'
SoftLimitMessage == <<"Reached max session turns for this session.">>

\* `Reached hard turn limit (${this.MAX_TURNS}).`
HardLimitMessage == <<"Reached hard turn limit (", ToString(MAX_TURNS), ").">>

\* 'Operation cancelled.'
CancelledMessage == <<"Operation cancelled.">>

\* 'Task failed: Task was not completed successfully.'
NotCompletedMessage == <<"Task failed: Task was not completed successfully.">>

(***************************************************************************)
(* State.                                                                  *)
(***************************************************************************)
VARIABLES
    pc,               \* where executeTask stands: idle, setup, loopTop, send,
                      \* stream, tools, toolExec, decide, oracle, finally, done
    strategy,         \* options.strategy: "none" or the kind of strategy
    request,          \* the TaskRequest of the running execution
    config,           \* this.config: None until buildConfiguration returned
    sessionTurnCount, \* this.sessionTurnCount
    turnCount,        \* let turnCount of executeTaskInternal
    currentStatus,    \* this.currentStatus, which is also the status last
                      \* handed to statusCallback
    published,        \* whether statusCallback has been called at all
    currentMessages,  \* let currentMessages: the parts of the next message
    functionCalls,    \* const functionCalls of the turn
    fcIndex,          \* position of the for..of loop over functionCalls
    toolResponseParts,\* const toolResponseParts of the turn
    accumulatedText,  \* let accumulatedText
    hasStreamContent, \* let hasStreamContent
    chunksSeen,       \* chunks the response stream has delivered this turn
    callId,           \* const callId of the invocation being dispatched
    toolResponse,     \* const toolResponse of that invocation
    exportPath,       \* let exportPath of that invocation
    isCompleted,      \* const isCompleted of the last completion check
    nextSpeakerCheck, \* const nextSpeakerCheck of the last continuation check
    toolsEmitted,     \* tool invocations the model has emitted so far
    signalAborted,    \* abortController.signal.aborted
    finalSuccess,     \* let finalSuccess
    executionError,   \* let executionError
    sendCount,        \* calls of chat.sendMessageStream made so far
    abortCalled,      \* abort() has been called during this execution
    result,           \* the TaskResult executeTask resolved with, or None
    rejected,         \* the promise of executeTask was rejected
    completions       \* event-driven engine: the success flags of the
                      \* completion events handed to eventCallback so far

vars == <<pc, strategy, request, config, sessionTurnCount, turnCount,
          currentStatus, published, currentMessages, functionCalls, fcIndex,
          toolResponseParts, accumulatedText, hasStreamContent, chunksSeen,
          callId, toolResponse, exportPath, isCompleted, nextSpeakerCheck,
          toolsEmitted, signalAborted, finalSuccess, executionError,
          sendCount, abortCalled, result, rejected, completions>>

(***************************************************************************)
(* Inputs.                                                                 *)
(***************************************************************************)
\* options.strategy: none, the reference strategy of the tests, or a
\* caller-supplied strategy whose methods may return anything or throw
StrategyKinds == {"none", "mock", "custom"}

SessionIds == {"s1"}

\* the sessionId of a task that is started while another is in progress
OverlapSessionIds == {"s2"}

\* what config.getMaxSessionTurns() returns in a short session
ShortSoftLimits == 1..MaxSoftLimit

\* ... and in a long one: unset (0 or negative), or at the hard limit
LongSoftLimits == {-1, 0, MAX_TURNS, MAX_TURNS + 1}

(***************************************************************************)
(* TaskStatus.                                                             *)
(***************************************************************************)
\* a percentage is the fraction n / d with d > 0 (the fallback divides)
Frac(n, d) == IF d < 0 THEN [n |-> -n, d |-> -d] ELSE [n |-> n, d |-> d]

Action(type, text, turn) == [type |-> type, text |-> text, turn |-> turn]

\* this.currentStatus before the first executeTask assigns it
NoStatus ==
    [sessionId |-> "", sessionState |-> "unset",
     progress |-> [currentTurn |-> 0, maxTurns |-> 0, percentage |-> Frac(0, 1)],
     currentAction |-> Action("", "", 0),
     llmStream |-> None, toolCalls |-> <<>>, finalResult |-> None]

\* the object literal of executeTask
InitialStatus(sessionId) ==
    [sessionId |-> sessionId, sessionState |-> "initializing",
     progress |-> [currentTurn |-> 0, maxTurns |-> DEFAULT_MAX_TURNS,
                   percentage |-> Frac(0, 1)],
     currentAction |-> Action("thinking", "Initializing...", 0),
     llmStream |-> None, toolCalls |-> <<>>, finalResult |-> None]

\* a merge that drops the stream snapshot unless the update carries one
UpdateStatusDroppingStream(status, partial) ==
    [f \in DOMAIN status |-> IF f \in DOMAIN partial THEN partial[f]
                             ELSE IF f = "llmStream" THEN None ELSE status[f]]

\* a merge that skips the keys of partial whose value is undefined
UpdateStatusSkippingUndefined(status, partial) ==
    [f \in DOMAIN status |->
        IF f \in DOMAIN partial /\ ~(f = "llmStream" /\ partial[f] = None)
        THEN partial[f] ELSE status[f]]

\* { ...this.currentStatus, ...partial }: a key of partial overrides, also
\* when its value is undefined
UpdateStatus(status, partial) ==
    [f \in DOMAIN status |-> IF f \in DOMAIN partial THEN partial[f] ELSE status[f]]

\* what a snapshot delivered earlier in the execution holds once the engine
\* has reached `status`: the spread of updateStatus copies the reference to
\* the toolCalls array of the initial literal, and updateToolStatus writes
\* that array in place
SnapshotNow(snapshot, status) == [snapshot EXCEPT !.toolCalls = status.toolCalls]

FinalResult(success, error, summary) ==
    [success |-> success, error |-> error, summary |-> summary, outputPath |-> None]

TaskResult(success, sessionId, outputPath, summary, error, turns, calls) ==
    [success |-> success, sessionId |-> sessionId, outputPath |-> outputPath,
     executionSummary |-> summary, error |-> error,
     turnCount |-> turns, toolCallCount |-> calls]

(***************************************************************************)
(* executeTask.                                                            *)
(***************************************************************************)
Init ==
    /\ pc = "idle"
    /\ strategy \in StrategyKinds
    /\ request = [sessionId |-> ""]
    /\ config = None
    /\ sessionTurnCount = 0
    /\ turnCount = 0
    /\ currentStatus = NoStatus
    /\ published = FALSE
    /\ currentMessages = [kind |-> "none", parts |-> <<>>]
    /\ functionCalls = <<>>
    /\ fcIndex = 0
    /\ toolResponseParts = <<>>
    /\ accumulatedText = <<>>
    /\ hasStreamContent = FALSE
    /\ chunksSeen = 0
    /\ callId = <<>>
    /\ toolResponse = None
    /\ exportPath = None
    /\ isCompleted = None
    /\ nextSpeakerCheck = "none"
    /\ toolsEmitted = 0
    /\ signalAborted = FALSE
    /\ finalSuccess = TRUE
    /\ executionError = None
    /\ sendCount = 0
    /\ abortCalled = FALSE
    /\ result = None
    /\ rejected = FALSE
    /\ completions = <<>>

\* the locals of one turn
toolVars == <<callId, toolResponse, exportPath>>

decisionVars == <<isCompleted, nextSpeakerCheck>>

turnVars == <<functionCalls, fcIndex, toolResponseParts, accumulatedText,
              hasStreamContent, chunksSeen, toolVars>>

\* executeTask up to its try: the initial status and updateStatus({})
StartTask ==
    /\ pc = "idle"
    /\ \E sid \in SessionIds :
          /\ request' = [sessionId |-> sid]
          /\ currentStatus' = UpdateStatus(InitialStatus(sid), [x \in {} |-> 0])
    /\ published' = TRUE
    /\ pc' = "setup"
    /\ UNCHANGED <<decisionVars, strategy, completions, config, sessionTurnCount, turnCount, currentMessages,
                   turnVars, toolsEmitted, signalAborted, finalSuccess,
                   executionError, sendCount, abortCalled, result, rejected>>

\* a rejected promise of executeTaskInternal that nothing catches
ExecuteTaskRethrow(msg) ==
    /\ rejected' = TRUE
    /\ pc' = "done"
    /\ UNCHANGED <<currentStatus, published, result>>

\* a catch that resolves with the failure and publishes nothing
ExecuteTaskCatchSilent(msg) ==
    /\ result' = Some(TaskResult(FALSE, request.sessionId, None,
                         <<"Error occurred during execution">>, Some(msg),
                         currentStatus.progress.currentTurn,
                         Len(currentStatus.toolCalls)))
    /\ rejected' = FALSE
    /\ pc' = "done"
    /\ UNCHANGED <<currentStatus, published>>

\* the catch of executeTask: publish the error, resolve with a failure
ExecuteTaskCatch(msg) ==
    LET status == UpdateStatus(currentStatus,
                    [sessionState |-> "error",
                     finalResult |-> Some(FinalResult(FALSE, Some(msg),
                                        <<"Task execution failed: ">> \o msg))])
    IN /\ currentStatus' = status
       /\ published' = TRUE
       /\ result' = Some(TaskResult(FALSE, request.sessionId, None,
                            <<"Error occurred during execution">>, Some(msg),
                            status.progress.currentTurn, Len(status.toolCalls)))
       /\ rejected' = FALSE
       /\ pc' = "done"

SetupOutcomes == {"ok", "buildConfigurationThrows", "initializeThrows",
                  "refreshAuthThrows"}

\* executeTaskInternal from buildConfiguration to the 'running' status
Setup(outcome, limit) ==
    /\ pc = "setup"
    /\ IF outcome = "ok"
       THEN /\ config' = Some([maxSessionTurns |-> limit])
            /\ currentStatus' = UpdateStatus(currentStatus,
                  [sessionState |-> "running",
                   currentAction |-> Action("thinking", "Starting task execution...", 0)])
            /\ pc' = "prepare"
            /\ UNCHANGED <<published, result, rejected>>
       ELSE /\ config' = IF outcome = "buildConfigurationThrows"
                         THEN config ELSE Some([maxSessionTurns |-> limit])
            /\ ExecuteTaskCatch(<<outcome>>)
    /\ UNCHANGED <<decisionVars, strategy, completions, request, sessionTurnCount, turnCount, currentMessages,
                   turnVars, toolsEmitted, signalAborted, finalSuccess,
                   executionError, sendCount, abortCalled>>

PrepareOutcomes == {"ok", "getChatThrows", "buildPromptThrows"}

\* getChat, new AbortController(), buildPrompt and the locals of the loop
Prepare(outcome) ==
    /\ pc = "prepare"
    /\ IF outcome = "ok"
       THEN /\ currentMessages' = [kind |-> "prompt", parts |-> <<"initialPrompt">>]
            /\ signalAborted' = FALSE
            /\ turnCount' = 0
            /\ finalSuccess' = TRUE
            /\ executionError' = None
            /\ pc' = "loopTop"
            /\ UNCHANGED <<currentStatus, published, result, rejected>>
       ELSE /\ ExecuteTaskCatch(<<outcome>>)
            /\ UNCHANGED <<currentMessages, signalAborted, turnCount, finalSuccess,
                           executionError>>
    /\ UNCHANGED <<decisionVars, strategy, completions, request, config, sessionTurnCount, turnVars,
                   toolsEmitted, sendCount, abortCalled>>

(***************************************************************************)
(* Strategy: each method's possible outcomes, as the set the engine may    *)
(* see.  An outcome is [throws, value].                                    *)
(***************************************************************************)
Returns(v) == [throws |-> FALSE, value |-> v]

Throws(v) == [throws |-> TRUE, value |-> v]

Min(a, b) == IF a <= b THEN a ELSE b

\* MockTaskStrategy.calculateProgress: Math.min(turnCount * 20, 100)
MockCalculateProgress(toolCalls, turn) == Min(turn * 20, 100)

\* MockTaskStrategy.isTaskComplete
MockIsTaskComplete(toolCalls) ==
    \E i \in 1..Len(toolCalls) :
        toolCalls[i].name = "complete_task" /\ toolCalls[i].status = "completed"

\* strategy.calculateProgress(toolCalls, currentTurn)
StrategyCalculateProgress(kind, toolCalls, turn) ==
    IF kind = "mock"
    THEN {Returns(Frac(MockCalculateProgress(toolCalls, turn), 1))}
    ELSE {Returns(Frac(50, 1)), Throws(Frac(0, 1))}

\* strategy.isTaskComplete(toolCalls)
StrategyIsTaskComplete(kind, toolCalls) ==
    IF kind = "mock"
    THEN {Returns(MockIsTaskComplete(toolCalls))}
    ELSE {Returns(TRUE), Returns(FALSE), Throws(FALSE)}

(***************************************************************************)
(* calculateProgress.                                                      *)
(***************************************************************************)
\* this.config?.getMaxSessionTurns() || 50
MaxTurnsOrDefault(cfg) ==
    IF cfg = None \/ cfg[1].maxSessionTurns = 0
    THEN DEFAULT_MAX_TURNS ELSE cfg[1].maxSessionTurns

\* a fallback without the cap of Math.min
FallbackProgressUncapped(status, cfg) ==
    Frac(status.progress.currentTurn * 95, MaxTurnsOrDefault(cfg))

\* the fallback of calculateProgress
FallbackProgress(status, cfg) ==
    LET raw == Frac(status.progress.currentTurn * 95, MaxTurnsOrDefault(cfg))
        turnProgress == IF raw.n >= 95 * raw.d THEN Frac(95, 1) ELSE raw
    IN IF status.finalResult # None /\ status.finalResult[1].success
       THEN Frac(100, 1) ELSE turnProgress

CalculateProgress(kind, status, cfg) ==
    IF kind # "none"
    THEN StrategyCalculateProgress(kind, status.toolCalls, status.progress.currentTurn)
    ELSE {Returns(FallbackProgress(status, cfg))}

(***************************************************************************)
(* The turn loop of executeTaskInternal.                                   *)
(***************************************************************************)
\* a catch that leaves the loop and forgets the exception
LoopCatchSwallow(msg) ==
    /\ pc' = "finally"
    /\ UNCHANGED <<executionError, finalSuccess>>

\* a catch that records the message and leaves finalSuccess as it is
LoopCatchKeepingSuccess(msg) ==
    /\ executionError' = Some(msg)
    /\ finalSuccess' = finalSuccess
    /\ pc' = "finally"

\* the catch of the loop's try
LoopCatch(msg) ==
    /\ executionError' = Some(msg)
    /\ finalSuccess' = FALSE
    /\ pc' = "finally"

\* a head of the iteration that knows the soft limit only
LimitCheckSoftOnly(maxSessionTurns, sessionTurns, turns) ==
    IF maxSessionTurns > 0 /\ sessionTurns > maxSessionTurns THEN "soft" ELSE "ok"

\* limit checks that forget to ask whether the soft limit is set
LimitCheckSoftUnguarded(maxSessionTurns, sessionTurns, turns) ==
    IF sessionTurns > maxSessionTurns THEN "soft"
    ELSE IF turns > MAX_TURNS THEN "hard"
    ELSE "ok"

\* the two limit checks at the head of an iteration, soft first
LimitCheck(maxSessionTurns, sessionTurns, turns) ==
    IF maxSessionTurns > 0 /\ sessionTurns > maxSessionTurns THEN "soft"
    ELSE IF turns > MAX_TURNS THEN "hard"
    ELSE "ok"

LimitMessage(limit) == IF limit = "soft" THEN SoftLimitMessage ELSE HardLimitMessage

\* the locals declared in the body of the loop, as a new iteration finds them
FreshTurn ==
    /\ functionCalls' = <<>>
    /\ fcIndex' = 0
    /\ toolResponseParts' = <<>>
    /\ accumulatedText' = <<>>
    /\ hasStreamContent' = FALSE
    /\ chunksSeen' = 0
    /\ callId' = <<>>
    /\ toolResponse' = None
    /\ exportPath' = None

\* the head of an iteration: counters, limits, the 'thinking' status, and
\* the call of sendMessageStream
LoopTop ==
    /\ pc = "loopTop"
    /\ turnCount' = turnCount + 1
    /\ sessionTurnCount' = sessionTurnCount + 1
    /\ LET S == config[1].maxSessionTurns
           limit == LimitCheck(S, sessionTurnCount', turnCount')
       IN IF limit # "ok"
          THEN /\ executionError' = Some(LimitMessage(limit))
               /\ finalSuccess' = FALSE
               /\ pc' = "finally"
               /\ UNCHANGED currentStatus
          ELSE \E p \in CalculateProgress(strategy, currentStatus, config) :
                 IF p.throws
                 THEN /\ LoopCatch(<<"calculateProgressThrows">>)
                      /\ UNCHANGED currentStatus
                 ELSE /\ currentStatus' = UpdateStatus(currentStatus,
                           [currentAction |-> Action("thinking", "Turn thinking...",
                                                     sessionTurnCount'),
                            progress |-> [currentTurn |-> sessionTurnCount',
                                          maxTurns |-> Min(MaxTurnsOrDefault(config),
                                                           MAX_TURNS),
                                          percentage |-> p.value],
                            llmStream |-> None])
                      /\ pc' = "send"
                      /\ UNCHANGED <<executionError, finalSuccess>>
    /\ FreshTurn
    /\ isCompleted' = None
    /\ nextSpeakerCheck' = "none"
    /\ UNCHANGED <<strategy, completions, request, config, published, currentMessages,
                   toolsEmitted, signalAborted, sendCount, abortCalled, result,
                   rejected>>

(***************************************************************************)
(* Error texts and patterns.  A regular expression is named by its source  *)
(* in lower case (all the engine's patterns carry the i flag);             *)
(* Fragments(tok) lists the patterns that match inside the token tok.      *)
(***************************************************************************)
Fragments(tok) ==
    CASE tok = "The input token count exceeds the maximum" ->
            {"token.*count.*exceeds.*maximum", "input.*token.*count.*exceeds",
             "token.*count.*exceeds"}
      [] tok = "request too large" -> {"request.*too.*large"}
      [] tok = "timeout" -> {"timeout"}
      [] tok = "ECONNREFUSED" -> {"econn", "econnrefused"}
      [] tok = "FATAL_ERROR" -> {"fatal_error"}
      [] tok = "auth_tool" -> {"auth"}
      [] tok = "not found in registry" -> {"not found in registry"}
      [] OTHER -> {}

\* pattern.test(msg)
Test(pattern, msg) == \E i \in 1..Len(msg) : pattern \in Fragments(msg[i])

\* recoverablePatterns of isRecoverableError
RecoverablePatterns ==
    {"token.*count.*exceeds.*maximum", "input.*token.*count.*exceeds",
     "context.*length.*exceeded", "request.*too.*large", "rate.*limit.*exceeded",
     "quota.*exceeded", "service.*temporarily.*unavailable", "timeout",
     "network.*error", "connection.*reset", "socket.*hang.*up", "econnreset",
     "enotfound", "econnrefused", "etimedout", "temporary.*failure"}

\* a test that holds no error to be recoverable
NeverRecoverable(errorMessage) == FALSE

IsRecoverableError(errorMessage) ==
    \E pattern \in RecoverablePatterns : Test(pattern, errorMessage)

FormatErrorForLLM(errorMessage) ==
    IF Test("token.*count.*exceeds", errorMessage)
    THEN <<"[API Error: Token limit exceeded]">>
    ELSE IF \E q \in {"rate.*limit", "quota.*exceeded"} : Test(q, errorMessage)
    THEN <<"[API Error: Rate/quota limit exceeded]">>
    ELSE IF \E q \in {"timeout", "network.*error", "connection", "socket.*hang.*up",
                      "econnreset", "enotfound", "econnrefused", "etimedout"} :
                Test(q, errorMessage)
    THEN <<"[Network Error: Connection issue detected]">>
    ELSE <<"[API Error: ">> \o errorMessage \o <<"]">>

\* what chat.sendMessageStream may throw
SendErrors == {<<"timeout">>, <<"API key not valid">>}

\* the errors of a long session
LongSendErrors == {<<"timeout">>}

\* sendMessageStream has returned (err = None) or thrown (err = Some(message))
Send(err) ==
    /\ pc = "send"
    /\ sendCount' = sendCount + 1
    /\ IF err = None
       THEN /\ hasStreamContent' = FALSE
            /\ accumulatedText' = <<>>
            /\ chunksSeen' = 0
            /\ pc' = "stream"
            /\ UNCHANGED <<currentMessages, currentStatus, executionError,
                           finalSuccess>>
       ELSE IF IsRecoverableError(err[1])
       THEN LET errorFeedback == FormatErrorForLLM(err[1])
            IN /\ currentMessages' = [kind |-> "errorFeedback",
                                      parts |-> <<errorFeedback>>]
               /\ currentStatus' = UpdateStatus(currentStatus,
                     [currentAction |-> Action("thinking", "Turn handling API error...",
                                               sessionTurnCount),
                      llmStream |-> Some([partialText |-> errorFeedback,
                                          isComplete |-> TRUE])])
               /\ pc' = "loopTop"
               /\ UNCHANGED <<hasStreamContent, accumulatedText, chunksSeen,
                              executionError, finalSuccess>>
       ELSE /\ LoopCatch(err[1])
            /\ UNCHANGED <<currentMessages, currentStatus, hasStreamContent,
                           accumulatedText, chunksSeen>>
    /\ UNCHANGED <<decisionVars, toolVars, strategy, completions, request, config, sessionTurnCount, turnCount, published,
                   functionCalls, fcIndex, toolResponseParts, toolsEmitted,
                   signalAborted, abortCalled, result, rejected>>

(***************************************************************************)
(* Response chunks.  A chunk is [candidates, parts]: whether candidates[0] *)
(* and its content exist, and the parts of that content.                   *)
(***************************************************************************)
TextPart(t) == [kind |-> "text", text |-> t, thought |-> FALSE, fc |-> None]

FunctionCallPart(fc) == [kind |-> "functionCall", text |-> <<>>, thought |-> FALSE,
                         fc |-> Some(fc)]

\* a part with text and thought: true
ThoughtPart(t) == [kind |-> "text", text |-> t, thought |-> TRUE, fc |-> None]

\* the part {}
EmptyPart == [kind |-> "empty", text |-> <<>>, thought |-> FALSE, fc |-> None]

Chunk(parts) == [candidates |-> TRUE, parts |-> parts]

\* a response without candidates[0].content
NoCandidate == [candidates |-> FALSE, parts |-> <<>>]

\* the FunctionCalls the model may emit: the id is optional
FunctionCalls == {[id |-> None, name |-> "process"],
                  [id |-> Some("c1"), name |-> "complete_task"]}

\* the chunks a response stream may deliver
Chunks ==
    {Chunk(<<TextPart(<<"a">>)>>), Chunk(<<>>)}
    \cup {Chunk(<<FunctionCallPart(fc)>>) : fc \in FunctionCalls}

\* the chunks of a long session: text only
LongChunks == {Chunk(<<TextPart(<<"a">>)>>)}

\* the chunks of the sessions that look at the stream: answer text, thoughts
\* and empty objects at either position among the parts
StreamChunks ==
    {Chunk(<<TextPart(<<"a">>)>>),
     Chunk(<<TextPart(<<"b">>)>>),
     Chunk(<<ThoughtPart(<<"t">>)>>),
     Chunk(<<TextPart(<<"a">>), ThoughtPart(<<"t">>)>>),
     Chunk(<<>>),
     Chunk(<<EmptyPart>>),
     Chunk(<<TextPart(<<"b">>), EmptyPart>>),
     Chunk(<<FunctionCallPart([id |-> None, name |-> "process"]), EmptyPart>>),
     Chunk(<<FunctionCallPart([id |-> None, name |-> "process"])>>),
     NoCandidate}

IsValidContent(parts) ==
    /\ Len(parts) > 0
    /\ \A i \in 1..Len(parts) : parts[i].kind # "empty"

IsValidResponse(resp) == resp.candidates /\ IsValidContent(resp.parts)

RECURSIVE JoinText(_)
\* parts.filter(part => part.text).map(part => part.text).join('')
JoinText(parts) ==
    IF parts = <<>> THEN <<>>
    ELSE (IF Head(parts).kind = "text" THEN Head(parts).text ELSE <<>>)
         \o JoinText(Tail(parts))

\* getTextContent: None is null
GetTextContent(resp) ==
    IF ~resp.candidates \/ Len(resp.parts) = 0 THEN None
    ELSE IF resp.parts[1].thought THEN None
    ELSE Some(JoinText(resp.parts))

RECURSIVE CallsOf(_)
\* resp.functionCalls: the function calls among the parts, in order
CallsOf(parts) ==
    IF parts = <<>> THEN <<>>
    ELSE (IF Head(parts).kind = "functionCall" THEN Head(parts).fc ELSE <<>>)
         \o CallsOf(Tail(parts))

\* one iteration of the for await over the response stream
StreamChunk(resp) ==
    /\ pc = "stream"
    /\ chunksSeen < MaxChunks
    /\ toolsEmitted + Len(CallsOf(resp.parts)) <= MaxToolCalls
    /\ chunksSeen' = chunksSeen + 1
    /\ toolsEmitted' = toolsEmitted + Len(CallsOf(resp.parts))
    /\ IF signalAborted
       THEN /\ executionError' = Some(CancelledMessage)
            /\ finalSuccess' = FALSE
            /\ pc' = "finally"
            /\ UNCHANGED <<currentStatus, accumulatedText, hasStreamContent,
                           functionCalls>>
       ELSE IF ~IsValidResponse(resp)
       THEN UNCHANGED <<currentStatus, accumulatedText, hasStreamContent,
                        functionCalls, executionError, finalSuccess, pc>>
       ELSE LET textContent == GetTextContent(resp)
            IN /\ IF textContent # None /\ textContent[1] # <<>>
                  THEN /\ hasStreamContent' = TRUE
                       /\ accumulatedText' = accumulatedText \o textContent[1]
                       /\ currentStatus' = UpdateStatus(currentStatus,
                             [currentAction |-> Action("responding", "Turn responding...",
                                                       sessionTurnCount),
                              llmStream |-> Some([partialText |-> accumulatedText',
                                                  isComplete |-> FALSE])])
                  ELSE UNCHANGED <<hasStreamContent, accumulatedText, currentStatus>>
               /\ functionCalls' = functionCalls \o CallsOf(resp.parts)
               /\ UNCHANGED <<executionError, finalSuccess, pc>>
    /\ UNCHANGED <<decisionVars, toolVars, strategy, completions, request, config, sessionTurnCount, turnCount, published,
                   currentMessages, fcIndex, toolResponseParts, signalAborted,
                   sendCount, abortCalled, result, rejected>>

\* the response stream throws while it is consumed
StreamThrows ==
    /\ pc = "stream"
    /\ LoopCatch(<<"streamThrows">>)
    /\ UNCHANGED <<decisionVars, strategy, completions, request, config, sessionTurnCount, turnCount,
                   currentStatus, published, currentMessages, turnVars, toolsEmitted,
                   signalAborted, sendCount, abortCalled, result, rejected>>

\* a final snapshot that is published whether or not text was produced
FinalSnapshotAlways(hasContent, text) ==
    Some([partialText |-> text, isComplete |-> TRUE])

\* hasStreamContent ? { partialText: accumulatedText, isComplete: true } : undefined
FinalSnapshot(hasContent, text) ==
    IF hasContent THEN Some([partialText |-> text, isComplete |-> TRUE]) ELSE None

\* the stream is exhausted: the final snapshot of the turn
EndStream ==
    /\ pc = "stream"
    /\ currentStatus' = UpdateStatus(currentStatus,
          [currentAction |->
               IF Len(functionCalls) > 0
               THEN Action("tool_executing", "Turn executing tools...", sessionTurnCount)
               ELSE Action("responding", "Turn completed", sessionTurnCount),
           llmStream |-> FinalSnapshot(hasStreamContent, accumulatedText)])
    /\ IF Len(functionCalls) > 0
       THEN /\ toolResponseParts' = <<>>
            /\ fcIndex' = 1
            /\ pc' = "tools"
       ELSE /\ UNCHANGED <<toolResponseParts, fcIndex>>
            /\ pc' = "decide"
    /\ UNCHANGED <<decisionVars, toolVars, strategy, completions, request, config, sessionTurnCount, turnCount, published,
                   currentMessages, functionCalls, accumulatedText, hasStreamContent,
                   chunksSeen, toolsEmitted, signalAborted, finalSuccess,
                   executionError, sendCount, abortCalled, result, rejected>>

(***************************************************************************)
(* The ledger of tool calls.                                               *)
(***************************************************************************)
\* the record pushed for an unknown callId, before ...update
NewToolCall(id) == [callId |-> id, name |-> "", status |-> "pending",
                    error |-> None, exportPath |-> None]

\* a lookup that finds no record
FindNothing(toolCalls, id) == 0

\* toolCalls.findIndex(call => call.callId === callId); 0 is -1
FindIndex(toolCalls, id) ==
    IF \E i \in 1..Len(toolCalls) : toolCalls[i].callId = id
    THEN CHOOSE i \in 1..Len(toolCalls) :
            /\ toolCalls[i].callId = id
            /\ \A j \in 1..(i - 1) : toolCalls[j].callId # id
    ELSE 0

\* updateToolStatus: the ledger after the update; updateStatus({}) follows
UpdateToolStatus(status, id, update) ==
    LET existingIndex == FindIndex(status.toolCalls, id)
        toolCalls ==
            IF existingIndex > 0
            THEN [status.toolCalls EXCEPT
                    ![existingIndex] = UpdateStatus(status.toolCalls[existingIndex], update)]
            ELSE Append(status.toolCalls, UpdateStatus(NewToolCall(id), update))
    IN UpdateStatus([status EXCEPT !.toolCalls = toolCalls], <<>>)

(***************************************************************************)
(* Tool dispatch.                                                          *)
(***************************************************************************)
\* the values Date.now() may return
Clock == {0, 1}

\* fc.id ?? `${fc.name}-${Date.now()}`
CallIdOf(fc, t) == IF fc.id # None THEN <<fc.id[1]>> ELSE <<fc.name, "-", ToString(t)>>

ErrorResponse(message) ==
    [error |-> Some(message), resultDisplay |-> None, responseParts |-> <<>>]

SuccessResponse == [error |-> None, resultDisplay |-> Some(<<"ok">>),
                responseParts |-> << <<"functionResponse">> >>]

\* what executeToolCall may resolve with
ToolResponses ==
    {SuccessResponse} \cup
    {ErrorResponse(m) : m \in {<<"not found in registry">>, <<"ECONNREFUSED">>,
                           <<"invalid argument">>}}

\* the default patterns of isFatalToolError
DefaultFatalPatterns == {"econn", "etimedout", "auth", "permission", "timeout",
                         "econnrefused"}

\* strategy.getFatalErrorPatterns()
StrategyGetFatalErrorPatterns(kind) ==
    IF kind = "mock" THEN {Returns({"fatal_error"})}
    ELSE {Returns({"econn", "not found in registry"}), Throws({})}

\* a fatality test that lets every tool error pass
NeverFatal(kind, patterns, msg) == FALSE

\* isFatalErrorResponse(msg), with the patterns the strategy returned
IsFatalToolError(kind, patterns, msg) ==
    IF kind # "none" THEN \E pattern \in patterns : Test(pattern, msg)
    ELSE \E pattern \in DefaultFatalPatterns : Test(pattern, msg)

PlainProcessing == [finalResult |-> None, exportPath |-> None]

\* strategy.processToolResult(toolCall, toolResponse)
StrategyProcessToolResult(kind) ==
    IF kind = "mock" THEN {Returns(PlainProcessing)}
    ELSE {Returns(PlainProcessing),
          Returns([finalResult |-> Some(FinalResult(TRUE, None, <<"exported">>)),
                   exportPath |-> Some("out.bin")]),
          Throws(PlainProcessing)}

\* the next invocation of the turn, or the feedback message and the next turn
NextCall(parts) ==
    /\ toolResponseParts' = parts
    /\ IF fcIndex < Len(functionCalls)
       THEN /\ fcIndex' = fcIndex + 1
            /\ pc' = "tools"
            /\ UNCHANGED currentMessages
       ELSE /\ fcIndex' = fcIndex
            /\ currentMessages' = [kind |-> "toolFeedback", parts |-> parts]
            /\ pc' = "loopTop"

\* the head of the for..of body: callId, the 'executing' record, and the
\* call of executeToolCall
ToolStart(t) ==
    /\ pc = "tools"
    /\ LET fc == functionCalls[fcIndex]
       IN /\ callId' = CallIdOf(fc, t)
          /\ currentStatus' = UpdateToolStatus(currentStatus, callId',
                [name |-> fc.name, status |-> "executing"])
    /\ pc' = "toolExec"
    /\ UNCHANGED <<decisionVars, strategy, completions, request, config, sessionTurnCount, turnCount, published,
                   currentMessages, functionCalls, fcIndex, toolResponseParts,
                   accumulatedText, hasStreamContent, chunksSeen, toolResponse,
                   exportPath, toolsEmitted, signalAborted, finalSuccess,
                   executionError, sendCount, abortCalled, result, rejected>>

\* executeToolCall throws
ToolThrows ==
    /\ pc = "toolExec"
    /\ LoopCatch(<<"executeToolCallThrows">>)
    /\ UNCHANGED <<decisionVars, strategy, completions, request, config, sessionTurnCount, turnCount,
                   currentStatus, published, currentMessages, turnVars, toolsEmitted,
                   signalAborted, sendCount, abortCalled, result, rejected>>

\* `Error executing tool ${fc.name}: ${resultDisplay || error.message}`
ErrorMsg(fc, resp) ==
    <<"Error executing tool ", fc.name, ": ">> \o
    (IF resp.resultDisplay # None THEN resp.resultDisplay[1] ELSE resp.error[1])

\* a test that recognises no unknown tool
NeverToolNotFound(resp) == FALSE

\* toolResponse.error.message.includes('not found in registry')
IsToolNotFound(resp) == Test("not found in registry", resp.error[1])

\* an error branch that pushes no feedback
ErrorFeedbackDropped(parts, fc, errorMsg) == parts

\* toolResponseParts.push({ text: `TOOL_ERROR(${fc.name}): ${errorMsg}` })
ErrorFeedback(parts, fc, errorMsg) ==
    Append(parts, <<"TOOL_ERROR(", fc.name, "): ">> \o errorMsg)

\* executeToolCall resolved with an error: the 'error' record, the
\* TOOL_ERROR feedback and the fatality decision
ToolErrorBranch(resp) ==
    LET fc == functionCalls[fcIndex]
        isToolNotFound == IsToolNotFound(resp)
        errorMsg == ErrorMsg(fc, resp)
        parts == ErrorFeedback(toolResponseParts, fc, errorMsg)
    IN /\ currentStatus' = UpdateToolStatus(currentStatus, callId,
             [status |-> "error", error |-> Some(errorMsg)])
       /\ IF isToolNotFound
          THEN /\ NextCall(parts)
               /\ UNCHANGED <<executionError, finalSuccess>>
          ELSE \E patterns \in (IF strategy = "none" THEN {Returns({})}
                                ELSE StrategyGetFatalErrorPatterns(strategy)) :
                 IF patterns.throws
                 THEN /\ LoopCatch(<<"getFatalErrorPatternsThrows">>)
                      /\ toolResponseParts' = parts
                      /\ UNCHANGED <<fcIndex, currentMessages>>
                 ELSE IF IsFatalToolError(strategy, patterns.value, errorMsg)
                 THEN /\ executionError' = Some(errorMsg)
                      /\ finalSuccess' = FALSE
                      /\ toolResponseParts' = parts
                      /\ pc' = "toolFatal"
                      /\ UNCHANGED <<fcIndex, currentMessages>>
                 ELSE /\ NextCall(parts)
                      /\ UNCHANGED <<executionError, finalSuccess>>
       /\ UNCHANGED <<toolResponse, exportPath>>

\* a completion that leaves the record as it is
CompleteCallKeepingRecord(status, resp, path) ==
    /\ currentStatus' = status
    /\ NextCall(toolResponseParts \o resp.responseParts)

\* a completion that forgets the exported path
CompleteCallWithoutPath(status, resp, path) ==
    /\ currentStatus' = UpdateToolStatus(status, callId,
          [status |-> "completed", exportPath |-> None])
    /\ NextCall(toolResponseParts \o resp.responseParts)

\* the 'completed' record of a successful invocation and its response parts
CompleteCall(status, resp, path) ==
    /\ currentStatus' = UpdateToolStatus(status, callId,
          [status |-> "completed", exportPath |-> path])
    /\ NextCall(toolResponseParts \o resp.responseParts)

\* executeToolCall resolved without an error: the strategy's processing,
\* then the 'completed' record
ToolSuccessBranch(resp) ==
    /\ toolResponse' = Some(resp)
    /\ \E processingResult \in (IF strategy = "none" THEN {Returns(PlainProcessing)}
                                ELSE StrategyProcessToolResult(strategy)) :
          IF processingResult.throws
          THEN /\ LoopCatch(<<"processToolResultThrows">>)
               /\ UNCHANGED <<currentStatus, exportPath, toolResponseParts, fcIndex,
                              currentMessages>>
          ELSE /\ exportPath' = processingResult.value.exportPath
               /\ IF processingResult.value.finalResult # None
                  THEN /\ currentStatus' = UpdateStatus(currentStatus,
                             [finalResult |-> processingResult.value.finalResult])
                       /\ pc' = "toolComplete"
                       /\ UNCHANGED <<toolResponseParts, fcIndex, currentMessages>>
                  ELSE CompleteCall(currentStatus, resp, exportPath')
               /\ UNCHANGED <<executionError, finalSuccess>>

\* executeToolCall has resolved
ToolReturn(resp) ==
    /\ pc = "toolExec"
    /\ IF resp.error # None THEN ToolErrorBranch(resp) ELSE ToolSuccessBranch(resp)
    /\ UNCHANGED <<decisionVars, strategy, completions, request, config, sessionTurnCount, turnCount, published,
                   functionCalls, accumulatedText, hasStreamContent, chunksSeen,
                   callId, toolsEmitted, signalAborted, sendCount, abortCalled,
                   result, rejected>>

\* after the strategy's finalResult was published: the 'completed' record
ToolComplete ==
    /\ pc = "toolComplete"
    /\ CompleteCall(currentStatus, toolResponse[1], exportPath)
    /\ UNCHANGED <<decisionVars, strategy, completions, request, config, sessionTurnCount, turnCount, published,
                   functionCalls, accumulatedText, hasStreamContent, chunksSeen,
                   toolVars, toolsEmitted, signalAborted, finalSuccess,
                   executionError, sendCount, abortCalled, result, rejected>>

\* a fatal tool error: the 'error' status, then break taskLoop
ToolFatal ==
    /\ pc = "toolFatal"
    /\ currentStatus' = UpdateStatus(currentStatus,
          [sessionState |-> "error",
           finalResult |-> Some(FinalResult(FALSE, executionError,
                                  <<"Task failed due to fatal tool error">>))])
    /\ pc' = "finally"
    /\ UNCHANGED <<decisionVars, strategy, completions, request, config, sessionTurnCount, turnCount, published,
                   currentMessages, turnVars, toolsEmitted, signalAborted,
                   finalSuccess, executionError, sendCount, abortCalled, result,
                   rejected>>

(***************************************************************************)
(* A turn without tool invocations: completion and continuation.           *)
(***************************************************************************)
\* a completion check that takes a missing strategy for 'complete'
IsCompletedByDefault(kind, toolCalls) ==
    IF kind = "none" THEN {Returns(TRUE)} ELSE StrategyIsTaskComplete(kind, toolCalls)

\* this.strategy ? this.strategy.isTaskComplete(toolCalls) : false
IsCompleted(kind, toolCalls) ==
    IF kind = "none" THEN {Returns(FALSE)} ELSE StrategyIsTaskComplete(kind, toolCalls)

\* the completion check, then 'completed' or the call of checkNextSpeaker
Decide ==
    /\ pc = "decide"
    /\ \E completed \in IsCompleted(strategy, currentStatus.toolCalls) :
          IF completed.throws
          THEN /\ LoopCatch(<<"isTaskCompleteThrows">>)
               /\ UNCHANGED <<currentStatus, isCompleted>>
          ELSE /\ isCompleted' = Some(completed.value)
               /\ IF completed.value
                  THEN /\ currentStatus' = UpdateStatus(currentStatus,
                             [sessionState |-> "completed",
                              progress |-> [currentStatus.progress EXCEPT
                                                !.percentage = Frac(100, 1)]])
                       /\ pc' = "finally"
                  ELSE /\ currentStatus' = UpdateStatus(currentStatus,
                             [currentAction |-> Action("thinking",
                                 "Determining if conversation should continue...", 0)])
                       /\ pc' = "oracle"
               /\ UNCHANGED <<executionError, finalSuccess>>
    /\ UNCHANGED <<nextSpeakerCheck, strategy, completions, request, config, sessionTurnCount,
                   turnCount, published, currentMessages, turnVars, toolsEmitted,
                   signalAborted, sendCount, abortCalled, result, rejected>>

\* what checkNextSpeaker may resolve with (null, or its next_speaker), or
\* that it throws
OracleAnswers == {"model", "user", "null", "throws"}

LongOracleAnswers == {"model"}

\* a continuation test that stops only when the user is named
ShouldContinueUnlessUser(answer) == answer # "user"

\* nextSpeakerCheck?.next_speaker === 'model'; a throw lands in the catch
ShouldContinue(answer) == answer = "model"

\* checkNextSpeaker has returned or thrown
Oracle(answer) ==
    /\ pc = "oracle"
    /\ nextSpeakerCheck' = answer
    /\ IF ShouldContinue(answer)
       THEN /\ currentStatus' = UpdateStatus(currentStatus,
                  [currentAction |-> Action("thinking", "Continuing conversation...", 0)])
            /\ currentMessages' = [kind |-> "continue", parts |-> << <<"Please continue.">> >>]
            /\ pc' = "loopTop"
            /\ UNCHANGED <<executionError, finalSuccess>>
       ELSE /\ executionError' = Some(NotCompletedMessage)
            /\ finalSuccess' = FALSE
            /\ currentStatus' = UpdateStatus(currentStatus,
                  [sessionState |-> "error",
                   finalResult |-> Some(FinalResult(FALSE, Some(NotCompletedMessage),
                        <<"Task failed: Task was not completed successfully">>))])
            /\ pc' = "finally"
            /\ UNCHANGED currentMessages
    /\ UNCHANGED <<isCompleted, strategy, completions, request, config, sessionTurnCount, turnCount,
                   published, turnVars, toolsEmitted, signalAborted, sendCount,
                   abortCalled, result, rejected>>

(***************************************************************************)
(* The finally of the loop and the result.                                 *)
(***************************************************************************)
\* executionError || finalResult?.summary || 'Task execution completed'
ExecutionSummary(status, err) ==
    IF err # None THEN err[1]
    ELSE IF status.finalResult # None /\ status.finalResult[1].summary # <<>>
    THEN status.finalResult[1].summary
    ELSE <<"Task execution completed">>

\* const finalResult: TaskResult
BuildFinalResult(status) ==
    TaskResult(finalSuccess, request.sessionId,
               IF status.finalResult # None THEN status.finalResult[1].outputPath
               ELSE None,
               ExecutionSummary(status, executionError), executionError,
               sessionTurnCount, Len(status.toolCalls))

\* isTelemetrySdkInitialized() / shutdownTelemetry, then the result
Finally(telemetryThrows) ==
    /\ pc = "finally"
    /\ IF telemetryThrows
       THEN ExecuteTaskCatch(<<"shutdownTelemetryThrows">>)
       ELSE /\ result' = Some(BuildFinalResult(currentStatus))
            /\ pc' = "done"
            /\ UNCHANGED <<currentStatus, published, rejected>>
    /\ FreshTurn
    /\ UNCHANGED <<decisionVars, strategy, completions, request, config, sessionTurnCount, turnCount,
                   currentMessages, toolsEmitted, signalAborted,
                   finalSuccess, executionError, sendCount, abortCalled>>

(***************************************************************************)
(* abort().                                                                *)
(***************************************************************************)
\* the positions at which executeTask awaits a collaborator
AwaitPoints == {"setup", "prepare", "send", "stream", "toolExec", "oracle", "finally"}

\* abort() called while executeTask awaits
Abort ==
    /\ pc \in AwaitPoints
    /\ currentStatus' = UpdateStatus(currentStatus,
          [sessionState |-> "error",
           finalResult |-> Some(FinalResult(FALSE, Some(<<"User cancelled">>),
                                  <<"Task was actively cancelled by user">>))])
    /\ abortCalled' = TRUE
    /\ UNCHANGED <<decisionVars, pc, strategy, completions, request, config, sessionTurnCount, turnCount,
                   published, currentMessages, turnVars, toolsEmitted, signalAborted,
                   finalSuccess, executionError, sendCount, result, rejected>>

(***************************************************************************)
(* Specifications.                                                         *)
(***************************************************************************)
SendOutcomes(errors) == {None} \cup {Some(e) : e \in errors}

\* short sessions: every collaborator may do anything it can do
Next ==
    \/ StartTask
    \/ \E outcome \in SetupOutcomes, limit \in ShortSoftLimits : Setup(outcome, limit)
    \/ \E outcome \in PrepareOutcomes : Prepare(outcome)
    \/ LoopTop
    \/ \E err \in SendOutcomes(SendErrors) : Send(err)
    \/ \E resp \in Chunks : StreamChunk(resp)
    \/ StreamThrows
    \/ EndStream
    \/ \E t \in Clock : ToolStart(t)
    \/ ToolThrows
    \/ \E resp \in ToolResponses : ToolReturn(resp)
    \/ ToolComplete
    \/ ToolFatal
    \/ Decide
    \/ \E answer \in OracleAnswers : Oracle(answer)
    \/ \E telemetryThrows \in BOOLEAN : Finally(telemetryThrows)

Spec == Init /\ [][Next]_vars

\* short sessions during which the caller may call abort()
NextAbort == Next \/ Abort

SpecAbort == Init /\ [][NextAbort]_vars

\* long sessions: the soft limit is unset or at the hard limit, the model
\* answers with text only, and the oracle always lets the model continue
NextLong ==
    \/ StartTask
    \/ \E limit \in LongSoftLimits : Setup("ok", limit)
    \/ Prepare("ok")
    \/ LoopTop
    \/ \E err \in SendOutcomes(LongSendErrors) : Send(err)
    \/ \E resp \in LongChunks : StreamChunk(resp)
    \/ EndStream
    \/ Decide
    \/ \E answer \in LongOracleAnswers : Oracle(answer)
    \/ Finally(FALSE)

SpecLong == Init /\ [][NextLong]_vars

\* every collaborator call returns and every stream ends
FairSpecLong == SpecLong /\ WF_vars(NextLong)

\* the limit of the sessions that look at the stream
StreamSoftLimits == {MaxSoftLimit}

\* sessions that look at the stream: every collaborator returns, and the
\* response stream delivers the chunks of StreamChunks
NextStream ==
    \/ StartTask
    \/ \E limit \in StreamSoftLimits : Setup("ok", limit)
    \/ Prepare("ok")
    \/ LoopTop
    \/ \E err \in SendOutcomes(SendErrors) : Send(err)
    \/ \E resp \in StreamChunks : StreamChunk(resp)
    \/ EndStream
    \/ ToolStart(0)
    \/ ToolReturn(SuccessResponse)
    \/ ToolComplete
    \/ Decide
    \/ \E answer \in LongOracleAnswers : Oracle(answer)
    \/ Finally(FALSE)

SpecStream == Init /\ [][NextStream]_vars

\* the chunks of the sessions that look at the tools: tool invocations only
ToolChunks == {Chunk(<<FunctionCallPart(fc)>>) : fc \in FunctionCalls}

\* sessions that look at the tools: the model asks for tools, and the
\* executor and the strategy may do anything they can do
NextTools ==
    \/ StartTask
    \/ \E limit \in StreamSoftLimits : Setup("ok", limit)
    \/ Prepare("ok")
    \/ LoopTop
    \/ Send(None)
    \/ \E resp \in ToolChunks : StreamChunk(resp)
    \/ EndStream
    \/ \E t \in Clock : ToolStart(t)
    \/ ToolThrows
    \/ \E resp \in ToolResponses : ToolReturn(resp)
    \/ ToolComplete
    \/ ToolFatal
    \/ Decide
    \/ \E answer \in LongOracleAnswers : Oracle(answer)
    \/ Finally(FALSE)

SpecTools == Init /\ [][NextTools]_vars

\* tool invocations whose names differ: one name matches a default fatal
\* pattern, the other matches none
NamedFunctionCalls == {[id |-> None, name |-> "process"],
                       [id |-> None, name |-> "auth_tool"]}

NamedToolChunks == {Chunk(<<FunctionCallPart(fc)>>) : fc \in NamedFunctionCalls}

\* what executeToolCall resolves with in the sessions that look at names
NamedToolResponses ==
    {SuccessResponse, ErrorResponse(<<"invalid argument">>),
     ErrorResponse(<<"ECONNREFUSED">>)}

\* sessions that look at the names of the tools
NextNames ==
    \/ StartTask
    \/ \E limit \in StreamSoftLimits : Setup("ok", limit)
    \/ Prepare("ok")
    \/ LoopTop
    \/ Send(None)
    \/ \E resp \in NamedToolChunks : StreamChunk(resp)
    \/ EndStream
    \/ ToolStart(0)
    \/ \E resp \in NamedToolResponses : ToolReturn(resp)
    \/ ToolComplete
    \/ ToolFatal
    \/ Decide
    \/ \E answer \in LongOracleAnswers : Oracle(answer)
    \/ Finally(FALSE)

SpecNames == Init /\ [][NextNames]_vars

(***************************************************************************)
(* The event-driven engine: executeTask reads the messages of one query    *)
(* and hands events to eventCallback.  pc is idle, eventSetup, eventLoop,  *)
(* eventFinish or done.                                                    *)
(***************************************************************************)
\* the variables the event-driven engine does not have
statusVars == <<strategy, config, currentStatus, published, currentMessages,
                turnVars, decisionVars, toolsEmitted, signalAborted, sendCount,
                abortCalled>>

\* completionIndicators of isNaturalCompletion
CompletionIndicators == {"task completed", "successfully completed",
                         "finished successfully", "operation complete",
                         "export_program completed", "export_binary completed",
                         "save_program completed"}

\* isNaturalCompletion: lower-cased content includes an indicator
IsNaturalCompletion(content) ==
    \E i \in 1..Len(content) : content[i] \in CompletionIndicators

\* the messages the query iterator may yield: their type, and the text
\* blocks of message.content
EventMessages ==
    {[type |-> "assistant", text |-> <<"working">>],
     [type |-> "assistant", text |-> <<"task completed">>],
     [type |-> "result", text |-> <<"task completed">>]}

\* messageContent: the joined text blocks of an assistant message, else ''
MessageContent(msg) == IF msg.type \in {"assistant", "message"} THEN msg.text ELSE <<>>

\* emitEvent({ completion: { success, ... } })
EmitCompletion(success) == completions' = Append(completions, success)

\* executeTask of the event-driven engine up to its try
EventStartTask ==
    /\ pc = "idle"
    /\ \E sid \in SessionIds : request' = [sessionId |-> sid]
    /\ pc' = "eventSetup"
    /\ UNCHANGED <<statusVars, sessionTurnCount, turnCount, finalSuccess,
                   executionError, result, rejected, completions>>

\* the catch of executeTask of the event-driven engine
EventExecuteTaskCatch(msg) ==
    /\ EmitCompletion(FALSE)
    /\ result' = Some(TaskResult(FALSE, request.sessionId, None,
                         <<"Error occurred during execution">>, Some(msg),
                         sessionTurnCount, 0))
    /\ pc' = "done"

EventSetupOutcomes == {"ok", "buildConfigurationThrows", "buildPromptThrows"}

\* executeTaskInternal from buildConfiguration to the locals of the loop
EventSetup(outcome) ==
    /\ pc = "eventSetup"
    /\ IF outcome = "ok"
       THEN /\ turnCount' = 0
            /\ finalSuccess' = TRUE
            /\ executionError' = None
            /\ pc' = "eventLoop"
            /\ UNCHANGED <<result, completions>>
       ELSE /\ EventExecuteTaskCatch(<<outcome>>)
            /\ UNCHANGED <<turnCount, finalSuccess, executionError>>
    /\ UNCHANGED <<statusVars, request, sessionTurnCount, rejected>>

\* one iteration of the for await over the query iterator
EventMessage(msg) ==
    /\ pc = "eventLoop"
    /\ turnCount' = turnCount + 1
    /\ sessionTurnCount' = sessionTurnCount + 1
    /\ IF sessionTurnCount' > MAX_TURNS
       THEN /\ executionError' = Some(HardLimitMessage)
            /\ finalSuccess' = FALSE
            /\ pc' = "eventFinish"
            /\ UNCHANGED completions
       ELSE IF MessageContent(msg) # <<>> /\ IsNaturalCompletion(MessageContent(msg))
       THEN /\ EmitCompletion(TRUE)
            /\ finalSuccess' = TRUE
            /\ pc' = "eventFinish"
            /\ UNCHANGED executionError
       ELSE UNCHANGED <<executionError, finalSuccess, pc, completions>>
    /\ UNCHANGED <<statusVars, request, result, rejected>>

\* the query iterator is exhausted
EventStreamEnds ==
    /\ pc = "eventLoop"
    /\ pc' = "eventFinish"
    /\ UNCHANGED <<statusVars, request, sessionTurnCount, turnCount, finalSuccess,
                   executionError, result, rejected, completions>>

\* the query, or anything else inside the try, throws
EventStreamThrows ==
    /\ pc = "eventLoop"
    /\ executionError' = Some(<<"queryThrows">>)
    /\ finalSuccess' = FALSE
    /\ pc' = "eventFinish"
    /\ UNCHANGED <<statusVars, request, sessionTurnCount, turnCount, result,
                   rejected, completions>>

\* the final completion event and the result
EventFinish ==
    /\ pc = "eventFinish"
    /\ IF finalSuccess /\ executionError = None
       THEN EmitCompletion(TRUE)
       ELSE UNCHANGED completions
    /\ result' = Some(TaskResult(finalSuccess, request.sessionId, None,
                         IF executionError # None THEN executionError[1]
                         ELSE <<"Task execution completed">>,
                         executionError, sessionTurnCount, 0))
    /\ pc' = "done"
    /\ UNCHANGED <<statusVars, request, sessionTurnCount, turnCount, finalSuccess,
                   executionError, rejected>>

NextEvent ==
    \/ EventStartTask
    \/ \E outcome \in EventSetupOutcomes : EventSetup(outcome)
    \/ \E msg \in EventMessages : EventMessage(msg)
    \/ EventStreamEnds
    \/ EventStreamThrows
    \/ EventFinish

SpecEvent == Init /\ [][NextEvent]_vars

(***************************************************************************)
(* Properties.                                                             *)
(***************************************************************************)
\* C1: executeTask always resolves with a TaskResult and never rejects,
\* whichever collaborator fails: once it has returned there is a result, and
\* its promise is never rejected.
C1_AlwaysResolves ==
    /\ ~rejected
    /\ pc = "done" => result # None

\* telemetry shutdown, the last collaborator, failed and executeTask resolved
C1_Witness ==
    /\ pc = "done"
    /\ result # None
    /\ result[1].error = Some(<<"shutdownTelemetryThrows">>)

\* C2: every execution terminates when every collaborator call returns and
\* every stream ends, and it makes at most MAX_TURNS send attempts.
C2_TerminatesWithinHardLimit ==
    /\ [](sendCount <= MAX_TURNS)
    /\ <>(pc = "done")

\* an execution that used all MAX_TURNS send attempts and returned
C2_Witness == pc = "done" /\ sendCount = MAX_TURNS

\* C3: soft limit unset, no tool invocations, no completion, the oracle always
\* continuing: the execution ends after exactly MAX_TURNS + 1 turns, the last
\* published status has sessionState error, and the error names MAX_TURNS.
C3_HardLimitEndsInError ==
    (/\ pc = "done"
     /\ strategy # "custom"
     /\ config[1].maxSessionTurns <= 0)
    => /\ result[1].turnCount = MAX_TURNS + 1
       /\ result[1].error # None
       /\ Contains(result[1].error[1], ToString(MAX_TURNS))
       /\ currentStatus.sessionState = "error"

\* C4: in an iteration in which turnCount exceeds MAX_TURNS the execution
\* ends with the hard-limit message, whatever the soft limit.
C4_HardLimitWins ==
    (pc \in {"finally", "done"} /\ turnCount > MAX_TURNS)
    => executionError = Some(HardLimitMessage)

\* C5: after a continuation check that answered anything but 'model', or
\* failed, the status is error, the execution is a failure with an error
\* text, and the result it resolves with is no success.
C5_NoContinuationIsFailure ==
    nextSpeakerCheck \notin {"none", "model"}
    => /\ isCompleted = Some(FALSE)
       /\ currentStatus.sessionState = "error"
       /\ ~finalSuccess
       /\ executionError # None
       /\ pc \in {"finally", "done"}
       /\ pc = "done" => /\ result # None
                         /\ ~result[1].success
                         /\ result[1].error # None

\* the oracle failed, and executeTask resolved with the explanatory error
C5_Witness ==
    /\ pc = "done"
    /\ nextSpeakerCheck = "throws"
    /\ result # None
    /\ result[1].error = Some(NotCompletedMessage)

\* C6: sessionState becomes completed exactly in a completion check of a turn
\* without tool invocations in which strategy.isTaskComplete(ledger) returned
\* true; a missing strategy never completes.
C6_CompletedIffStrategySaysSo ==
    [][/\ (currentStatus'.sessionState = "completed"
           /\ currentStatus.sessionState # "completed")
          => /\ pc = "decide"
             /\ functionCalls = <<>>
             /\ strategy # "none"
             /\ isCompleted' = Some(TRUE)
             /\ strategy = "mock" => MockIsTaskComplete(currentStatus.toolCalls)
       /\ (pc = "decide" /\ isCompleted' = Some(TRUE))
          => currentStatus'.sessionState = "completed"
       /\ (pc = "decide" /\ strategy = "mock"
           /\ MockIsTaskComplete(currentStatus.toolCalls))
          => currentStatus'.sessionState = "completed"
       /\ (pc = "decide" /\ isCompleted' = Some(FALSE))
          => currentStatus'.sessionState = currentStatus.sessionState
      ]_vars

\* the reference strategy found its complete_task record and completed
C6_Witness ==
    /\ strategy = "mock"
    /\ isCompleted = Some(TRUE)
    /\ currentStatus.sessionState = "completed"
    /\ Len(currentStatus.toolCalls) > 0

\* C7: when executeTask has resolved, the last published status is completed
\* for a success and error for a failure.
C7_LastStatusAgreesWithResult ==
    (pc = "done" /\ result # None)
    => currentStatus.sessionState =
           (IF result[1].success THEN "completed" ELSE "error")

\* the moves of sessionState the one-way order allows
ForwardMoves ==
    {<<"unset", "initializing">>, <<"initializing", "running">>,
     <<"initializing", "error">>, <<"running", "completed">>,
     <<"running", "error">>}

\* C8: between two published statuses sessionState stays or moves forward:
\* initializing -> running -> completed or error, or initializing -> error.
C8_SessionStateMovesForward ==
    [][\/ currentStatus'.sessionState = currentStatus.sessionState
       \/ <<currentStatus.sessionState, currentStatus'.sessionState>> \in ForwardMoves
      ]_vars

\* C9: once a status with sessionState completed or error is published, no
\* later status differs from it, whenever abort() is called.
C9_TerminalStatusIsFinal ==
    [][currentStatus.sessionState \in {"completed", "error"}
       => currentStatus' = currentStatus]_vars

\* cancellation has been requested: the loop's signal, or abort()
Cancelled == signalAborted \/ abortCalled

RecordOf(toolCalls) == toolCalls[FindIndex(toolCalls, callId)]

\* this step is executeToolCall resolving with an error
ToolErrorReturned ==
    /\ pc = "toolExec"
    /\ RecordOf(currentStatus.toolCalls).status = "executing"
    /\ RecordOf(currentStatus'.toolCalls).status = "error"

\* the message matches the patterns in force: the strategy's, or the default
MatchesFatalPattern(msg) ==
    IF strategy = "none" THEN \E pattern \in DefaultFatalPatterns : Test(pattern, msg)
    ELSE \E patterns \in StrategyGetFatalErrorPatterns(strategy) :
            ~patterns.throws /\ \E pattern \in patterns.value : Test(pattern, msg)

\* the status published for a fatal tool error
FatalPublished(status) ==
    /\ status.sessionState = "error"
    /\ status.finalResult # None
    /\ status.finalResult[1].summary = <<"Task failed due to fatal tool error">>

C12_ToolNotFoundNeverFatal ==
    [][(/\ ToolErrorReturned
        /\ Test("not found in registry", RecordOf(currentStatus'.toolCalls).error[1]))
       => /\ UNCHANGED <<executionError, finalSuccess>>
          /\ currentStatus'.sessionState = currentStatus.sessionState
          /\ currentStatus'.finalResult = currentStatus.finalResult
          /\ IF fcIndex < Len(functionCalls)
             THEN pc' = "tools" /\ fcIndex' = fcIndex + 1
             ELSE pc' = "loopTop" /\ currentMessages'.kind = "toolFeedback"
      ]_vars

\* an unknown tool under a strategy whose fatal patterns match its error, and
\* the next invocation of the turn about to be dispatched
C12_Witness ==
    /\ strategy = "custom"
    /\ pc = "tools"
    /\ fcIndex = 2
    /\ Len(currentStatus.toolCalls) = 1
    /\ currentStatus.toolCalls[1].status = "error"
    /\ Test("not found in registry", currentStatus.toolCalls[1].error[1])
    /\ MatchesFatalPattern(currentStatus.toolCalls[1].error[1])

\* the callIds of a ledger, in order
CallIds(toolCalls) == [i \in 1..Len(toolCalls) |-> toolCalls[i].callId]

\* C13: no two records of a published ledger share a callId; a step keeps
\* the records it finds in place and in order, and appends at most one
\* record, whose callId was unknown.
C13_OneRecordPerCallId ==
    [][LET old == currentStatus.toolCalls
           new == currentStatus'.toolCalls
       IN /\ \A i, j \in 1..Len(new) : new[i].callId = new[j].callId => i = j
          /\ Len(new) \in {Len(old), Len(old) + 1}
          /\ SubSeq(CallIds(new), 1, Len(old)) = CallIds(old)
          /\ Len(new) = Len(old) + 1
             => \A i \in 1..Len(old) : old[i].callId # new[Len(new)].callId
          /\ (pc = "tools" /\ \E i \in 1..Len(old) : old[i].callId = callId')
             => Len(new) = Len(old)
      ]_vars

\* an invocation that repeats a callId is executing in the record of the
\* earlier one, which still carries that one's error
C13_Witness ==
    /\ pc = "toolExec"
    /\ Len(currentStatus.toolCalls) = 1
    /\ toolsEmitted = 2
    /\ currentStatus.toolCalls[1].status = "executing"
    /\ currentStatus.toolCalls[1].error # None

\* the order of the record states: pending, executing, then completed or error
StatusRank(status) ==
    CASE status = "pending" -> 0
      [] status = "executing" -> 1
      [] OTHER -> 2

\* C14: the status of every record only moves forward, and a record that is
\* completed or error keeps its status, whatever invocations the model emits.
C14_RecordStatusMovesForward ==
    [][LET old == currentStatus.toolCalls
           new == currentStatus'.toolCalls
       IN \A i \in 1..Len(old) :
             /\ i <= Len(new)
             /\ StatusRank(new[i].status) >= StatusRank(old[i].status)
             /\ old[i].status \in {"completed", "error"}
                => new[i].status = old[i].status
      ]_vars

\* C15: every invocation dispatched gets a callId no record of the ledger
\* has, so each dispatch adds one record to the ledger.
C15_DispatchAddsRecord ==
    [][(pc = "tools" /\ pc' = "toolExec")
       => /\ \A i \in 1..Len(currentStatus.toolCalls) :
                currentStatus.toolCalls[i].callId # callId'
          /\ Len(currentStatus'.toolCalls) = Len(currentStatus.toolCalls) + 1
      ]_vars

\* the messages of the failures of setup
SetupFailures == {<<outcome>> : outcome \in SetupOutcomes \ {"ok"}}

\* C16: a failure of buildConfiguration, initialize or refreshAuth surfaces
\* before any turn: sessionState goes from initializing to error, nothing was
\* sent and no tool ran, and the result is a failure with the failure's
\* message, turnCount 0 and toolCallCount 0.
C16_SetupFailureBeforeAnyTurn ==
    [][(pc = "setup" /\ pc' # "setup")
       => \/ pc' = "prepare" /\ currentStatus'.sessionState = "running"
          \/ /\ pc' = "done"
             /\ currentStatus.sessionState = "initializing"
             /\ currentStatus'.sessionState = "error"
             /\ sendCount' = 0
             /\ sessionTurnCount' = 0
             /\ currentStatus'.toolCalls = <<>>
             /\ result' # None
             /\ ~result'[1].success
             /\ result'[1].error # None
             /\ result'[1].error[1] \in SetupFailures
             /\ currentStatus'.finalResult[1].error = result'[1].error
             /\ result'[1].turnCount = 0
             /\ result'[1].toolCallCount = 0
      ]_vars

\* authentication failed and executeTask resolved
C16_Witness ==
    /\ pc = "done"
    /\ result # None
    /\ result[1].error = Some(<<"refreshAuthThrows">>)
    /\ currentStatus.sessionState = "error"

\* the messages of the exceptions a collaborator may raise inside the loop
LoopExceptions ==
    {e \in SendErrors : ~IsRecoverableError(e)}
    \cup {<<"streamThrows">>, <<"executeToolCallThrows">>,
          <<"calculateProgressThrows">>, <<"isTaskCompleteThrows">>,
          <<"getFatalErrorPatternsThrows">>, <<"processToolResultThrows">>}

C18_DeliveredSnapshotImmutable ==
    [][pc # "idle" => SnapshotNow(currentStatus, currentStatus') = currentStatus]_vars

\* C19: an empty partial update publishes a status equal to the previous one
\* (the timestamp is not part of the model).
C19_EmptyUpdateChangesNothing ==
    UpdateStatus(currentStatus, <<>>) = currentStatus

\* the status published by the empty update that ends updateToolStatus, with
\* a stream snapshot and a record in it
C19_Witness ==
    /\ pc = "toolExec"
    /\ currentStatus.llmStream # None
    /\ Len(currentStatus.toolCalls) > 0
    /\ RecordOf(currentStatus.toolCalls).status = "executing"

\* a percentage within [0, 95]
UpTo95(p) == 0 <= p.n /\ p.n <= 95 * p.d

\* the fallback progress of every turn count and positive limit up to the bounds
FallbackWithin95 ==
    \A t \in 0..MaxTurnArgument, M \in 1..MaxLimitArgument :
        UpTo95(FallbackProgress(
                   [progress |-> [currentTurn |-> t], finalResult |-> None],
                   Some([maxSessionTurns |-> M])))

\* C20: without a strategy and with a positive limit the fallback progress of
\* every turn count lies in [0, 95], so does every percentage published, and
\* every status with sessionState completed reports exactly 100.
C20_ProgressCappedUntilCompleted ==
    /\ FallbackWithin95
    /\ (strategy = "none" /\ pc # "idle") => UpTo95(currentStatus.progress.percentage)
    /\ currentStatus.sessionState = "completed"
       => currentStatus.progress.percentage = Frac(100, 1)

\* a turn published without a strategy, half way to the limit
C20_Witness ==
    /\ strategy = "none"
    /\ pc = "send"
    /\ currentStatus.progress.percentage = Frac(95, 2)

(***************************************************************************)
(* An engine that is used for one task after another.                      *)
(***************************************************************************)
\* executeTask called again after the earlier call has resolved: a new
\* status literal and new locals; the fields of the engine stay as they are
StartNextTask ==
    /\ pc = "done"
    /\ sessionTurnCount <= MaxSoftLimit
    /\ \E sid \in SessionIds :
          /\ request' = [sessionId |-> sid]
          /\ currentStatus' = UpdateStatus(InitialStatus(sid), <<>>)
    /\ published' = TRUE
    /\ result' = None
    /\ rejected' = FALSE
    /\ turnCount' = 0
    /\ sendCount' = 0
    /\ toolsEmitted' = 0
    /\ abortCalled' = FALSE
    /\ isCompleted' = None
    /\ nextSpeakerCheck' = "none"
    /\ pc' = "setup"
    /\ UNCHANGED <<strategy, completions, config, sessionTurnCount, currentMessages, turnVars,
                   signalAborted, finalSuccess, executionError>>

NextReuse == Next \/ StartNextTask

SpecReuse == Init /\ [][NextReuse]_vars

\* the result was built by executeTaskInternal, not by the catch of executeTask
ResultOfLoop ==
    /\ pc = "done"
    /\ result # None
    /\ result[1].executionSummary # <<"Error occurred during execution">>

\* C21: a task run on a used engine counts its turns as on a fresh one: the
\* turn number published for a turn is the turn's number within the task,
\* the soft limit S fires in the task's turn S + 1, and the result's
\* turnCount is the number of turns of the task.
C21_TurnsCountedPerTask ==
    /\ pc = "send" => currentStatus.progress.currentTurn = turnCount
    /\ (pc = "finally" /\ executionError = Some(SoftLimitMessage))
       => turnCount = config[1].maxSessionTurns + 1
    /\ ResultOfLoop => result[1].turnCount = turnCount

\* C22: the soft limit fires exactly when the limit S is positive and the
\* lifetime turn counter exceeds it: the iteration then sends nothing and the
\* result is a failure with the soft-limit message, which is not the
\* hard-limit message; with S <= 0 it never fires.
C22_SoftLimitFiresWhenExceeded ==
    LET S == config[1].maxSessionTurns
    IN /\ SoftLimitMessage # HardLimitMessage
       /\ executionError = Some(SoftLimitMessage)
          => /\ S > 0
             /\ sessionTurnCount = S + 1
             /\ sendCount <= S
             /\ ~finalSuccess
             /\ pc \in {"finally", "done"}
             /\ pc = "done" => /\ ~result[1].success
                               /\ result[1].error = Some(SoftLimitMessage)
       /\ pc \in {"send", "stream", "decide", "oracle"}
          => ~(S > 0 /\ sessionTurnCount > S)

\* a session that ran into a soft limit equal to the hard limit
C22_Witness ==
    /\ pc = "done"
    /\ result # None
    /\ result[1].error = Some(SoftLimitMessage)
    /\ sendCount = MAX_TURNS

\* the positions of a turn after its message has been sent
InTurn == {"stream", "tools", "toolExec", "toolComplete", "decide", "oracle"}

\* the positions of a turn after its stream has ended
AfterStream == {"tools", "toolExec", "toolComplete", "decide", "oracle"}

IsPrefix(a, b) == Len(a) <= Len(b) /\ SubSeq(b, 1, Len(a)) = a

\* one iteration of the for await has run
ChunkStep == pc = "stream" /\ chunksSeen' = chunksSeen + 1

\* the stream has ended
EndStreamStep == pc = "stream" /\ pc' \in AfterStream

\* C23: stale text never leaks across turns: the status that opens a turn
\* carries no snapshot and the turn starts with an empty accumulator, a
\* snapshot published during the turn holds the accumulator of the turn,
\* which grows only by the text of a chunk of the turn, and the snapshot of
\* a recoverable send error holds the feedback synthesized for that error.
C23_NoStaleText ==
    /\ [](pc = "send" => currentStatus.llmStream = None)
    /\ []((pc = "stream" /\ chunksSeen = 0)
          => accumulatedText = <<>> /\ currentStatus.llmStream = None)
    /\ []((pc \in InTurn /\ currentStatus.llmStream # None)
          => currentStatus.llmStream[1].partialText = accumulatedText)
    /\ [][ChunkStep
          => \E resp \in StreamChunks :
                accumulatedText' \in {accumulatedText,
                                      accumulatedText \o JoinText(resp.parts)}]_vars
    /\ [][(pc = "send" /\ pc' = "loopTop")
          => /\ currentStatus'.llmStream # None
             /\ currentStatus'.llmStream[1].partialText
                   \in {FormatErrorForLLM(e) : e \in SendErrors}
             /\ currentMessages'.parts
                   = <<currentStatus'.llmStream[1].partialText>>]_vars

\* the second turn has published the text of a chunk of its own
C23_Witness ==
    /\ pc = "stream"
    /\ turnCount = 2
    /\ chunksSeen = 2
    /\ currentStatus.llmStream = Some([partialText |-> <<"b">>, isComplete |-> FALSE])

C25_ThoughtNeverSurfaces ==
    currentStatus.llmStream # None
    => ~Contains(currentStatus.llmStream[1].partialText, "t")

\* C26: a chunk that is consumed never fails the task, a chunk that adds
\* neither text nor tool invocation publishes no status, and every tool
\* invocation carried by a chunk with a non-empty fragment is collected.
C26_ChunkWithFragmentIsProcessed ==
    [][ChunkStep
       => /\ pc' = "stream"
          /\ executionError' = executionError
          /\ (accumulatedText' = accumulatedText /\ functionCalls' = functionCalls)
             => currentStatus' = currentStatus
          /\ Len(functionCalls') - Len(functionCalls)
                = toolsEmitted' - toolsEmitted]_vars

\* the message matches one of the recoverable patterns
MatchesRecoverablePattern(msg) == \E pattern \in RecoverablePatterns : Test(pattern, msg)

\* the send of this step has thrown
SendFailed == pc = "send" /\ pc' # "stream"

\* C27: a send that fails with a recoverable error does not end the task: the
\* ledger, the error and the counters stay as they are, the message becomes
\* the feedback synthesized for the error, which replaces the message that
\* failed (a prompt or tool feedback is never sent again) and is what the
\* next turn sends; the attempt has used a turn of both limits.  A send that fails with any other error ends the loop
\* with that error.
C27_RecoverableSendErrorContinues ==
    /\ [](sendCount <= turnCount /\ sendCount <= sessionTurnCount)
    /\ [][SendFailed
          => IF pc' = "loopTop"
             THEN /\ currentMessages'.kind = "errorFeedback"
                  /\ \E e \in SendErrors :
                        /\ MatchesRecoverablePattern(e)
                        /\ currentMessages'.parts = <<FormatErrorForLLM(e)>>
                  /\ currentMessages.kind # "errorFeedback"
                     => currentMessages' # currentMessages
                  /\ currentStatus'.toolCalls = currentStatus.toolCalls
                  /\ currentStatus'.sessionState = currentStatus.sessionState
                  /\ executionError' = executionError
                  /\ finalSuccess' = finalSuccess
                  /\ sendCount' = sendCount + 1
                  /\ result' = None
             ELSE /\ pc' = "finally"
                  /\ ~finalSuccess'
                  /\ executionError' # None
                  /\ ~MatchesRecoverablePattern(executionError'[1])
                  /\ currentMessages' = currentMessages]_vars
    /\ [][pc = "loopTop" => currentMessages' = currentMessages]_vars

\* the turn after a recoverable send error is about to send the feedback
C27_Witness ==
    /\ pc = "send"
    /\ turnCount = 2
    /\ sendCount = 1
    /\ currentMessages.kind = "errorFeedback"

\* the positions of the for..of over the invocations of a turn
ToolPositions == {"tools", "toolExec", "toolComplete", "toolFatal"}

\* the records of a ledger that are executing
Executing(toolCalls) == {i \in 1..Len(toolCalls) : toolCalls[i].status = "executing"}

\* C28: the invocations of a turn are collected in the order of the chunks
\* and dispatched one after the other in that order: the dispatch is for
\* invocation fcIndex, which moves on by one, no record is executing when an
\* invocation is dispatched, at most one record is executing in any status,
\* and none is when a message is sent.
C28_ToolsRunOneAtATime ==
    /\ [](Cardinality(Executing(currentStatus.toolCalls)) <= 1)
    /\ [](pc \in {"tools", "send"} => Executing(currentStatus.toolCalls) = {})
    /\ [](pc \in ToolPositions => fcIndex \in 1..Len(functionCalls))
    /\ [][ChunkStep => IsPrefix(functionCalls, functionCalls')]_vars
    /\ [][(pc \in ToolPositions)
          => /\ functionCalls' = functionCalls
             /\ sendCount' = sendCount
             /\ fcIndex' \in {fcIndex, fcIndex + 1, 0}
             /\ (fcIndex' = fcIndex + 1)
                => (pc \in {"toolExec", "toolComplete"} /\ pc' = "tools")]_vars
    /\ [][EndStreamStep /\ pc' = "tools" => fcIndex' = 1]_vars
    /\ [][pc = "tools"
          => /\ pc' = "toolExec"
             /\ callId' \in {CallIdOf(functionCalls[fcIndex], t) : t \in Clock}
             /\ currentStatus'.toolCalls[FindIndex(currentStatus'.toolCalls,
                                                   callId')].name
                   = functionCalls[fcIndex].name
             /\ Executing(currentStatus'.toolCalls)
                   = {FindIndex(currentStatus'.toolCalls, callId')}]_vars

\* the second invocation of a turn is executing, the first has completed
C28_Witness ==
    /\ pc = "toolExec"
    /\ fcIndex = 2
    /\ Len(currentStatus.toolCalls) = 2
    /\ currentStatus.toolCalls[1].status = "completed"
    /\ currentStatus.toolCalls[2].status = "executing"

\* the invocation of this step has been processed and was not fatal
InvocationProcessed ==
    /\ pc \in {"toolExec", "toolComplete"}
    /\ pc' \in {"tools", "loopTop"}

\* the feedback fragment of the invocation just processed, read from its
\* record and the response of the tool
FeedbackOf(record, fc) ==
    IF record.status = "error"
    THEN <<"TOOL_ERROR(", fc.name, "): ">> \o record.error[1]
    ELSE SuccessResponse.responseParts[1]

OtherRecordsKept ==
    /\ Len(currentStatus'.toolCalls) = Len(currentStatus.toolCalls)
    /\ \A i \in 1..Len(currentStatus.toolCalls) :
          i # FindIndex(currentStatus.toolCalls, callId)
          => currentStatus'.toolCalls[i] = currentStatus.toolCalls[i]

\* C30: a finalResult returned by the strategy is published by a step of its
\* own that comes before the 'completed' record, the next dispatch and the
\* next send; the 'completed' record of the call carries the path the
\* strategy returned for it, and no other record changes.
C30_FinalResultAndPathOfTheCall ==
    /\ [](pc = "toolComplete"
          => /\ currentStatus.finalResult
                   = Some(FinalResult(TRUE, None, <<"exported">>))
             /\ exportPath = Some("out.bin")
             /\ RecordOf(currentStatus.toolCalls).status = "executing")
    /\ [][(pc = "toolExec" /\ pc' = "toolComplete")
          => /\ currentStatus'.toolCalls = currentStatus.toolCalls
             /\ fcIndex' = fcIndex
             /\ sendCount' = sendCount
             /\ currentMessages' = currentMessages]_vars
    /\ [][(InvocationProcessed
           /\ RecordOf(currentStatus'.toolCalls).status = "completed")
          => /\ RecordOf(currentStatus'.toolCalls).exportPath = exportPath'
             /\ (pc = "toolExec") => exportPath' = None
             /\ OtherRecordsKept]_vars

\* the second call of a turn exported an artifact, the first did not
C30_Witness ==
    /\ pc = "loopTop"
    /\ Len(currentStatus.toolCalls) = 2
    /\ currentStatus.toolCalls[1].exportPath = None
    /\ currentStatus.toolCalls[2].exportPath = Some("out.bin")
    /\ currentStatus.toolCalls[2].status = "completed"
    /\ currentStatus.finalResult = Some(FinalResult(TRUE, None, <<"exported">>))

\* C31: with the 20%-per-turn strategy, the 'thinking' status that opens
\* turn t reports calculateProgress(ledger, t): 20 in turn 1, 100 from turn 5.
C31_ThinkingStatusReportsItsTurn ==
    (strategy = "mock" /\ pc = "send")
    => currentStatus.progress.percentage
          = Frac(MockCalculateProgress(currentStatus.toolCalls,
                                       currentStatus.progress.currentTurn), 1)

\* C32: without a strategy the percentage of every published status lies in
\* [0, 100], whatever getMaxSessionTurns returns, 0 and negative values
\* included.
C32_FallbackPercentageInRange ==
    (strategy = "none" /\ pc # "idle")
    => /\ 0 <= currentStatus.progress.percentage.n
       /\ currentStatus.progress.percentage.n
             <= 100 * currentStatus.progress.percentage.d

\* C33: the result has success = true only if a strategy is configured and
\* its isTaskComplete returned true in the turn that ended the loop, a turn
\* without tool invocations; without a strategy the result is a failure.
C33_SuccessOnlyByStrategyCompletion ==
    /\ (pc = "finally" /\ finalSuccess)
       => /\ strategy # "none"
          /\ isCompleted = Some(TRUE)
          /\ functionCalls = <<>>
          /\ currentStatus.sessionState = "completed"
    /\ (pc = "done" /\ result # None /\ result[1].success)
       => /\ strategy # "none"
          /\ isCompleted = Some(TRUE)
    /\ (pc = "done" /\ strategy = "none") => (result # None /\ ~result[1].success)

\* a result with success = true
C33_Witness ==
    /\ pc = "done"
    /\ result # None
    /\ result[1].success
    /\ strategy = "mock"

\* C34: after abort() was called, a chunk boundary ends the loop without
\* processing the chunk, nothing is sent from there on, and the result is
\* a failure.
C34_AbortStopsTheLoop ==
    /\ [][(abortCalled /\ ChunkStep)
          => /\ pc' = "finally"
             /\ ~finalSuccess'
             /\ sendCount' = sendCount]_vars
    /\ []((pc = "done" /\ abortCalled /\ result # None) => ~result[1].success)

(***************************************************************************)
(* Two calls of executeTask that overlap on one engine.                    *)
(***************************************************************************)
\* executeTask is called while an earlier call awaits a collaborator: the
\* new call assigns its status literal, publishes it and awaits its own
\* buildConfiguration; the earlier call goes on
StartOverlappingTask ==
    /\ pc \in AwaitPoints
    /\ currentStatus.sessionId = request.sessionId
    /\ \E sid \in OverlapSessionIds :
          currentStatus' = UpdateStatus(InitialStatus(sid), <<>>)
    /\ UNCHANGED <<pc, strategy, completions, request, config, sessionTurnCount, turnCount,
                   published, currentMessages, turnVars, decisionVars,
                   toolsEmitted, signalAborted, finalSuccess, executionError,
                   sendCount, abortCalled, result, rejected>>

NextOverlap == Next \/ StartOverlappingTask

SpecOverlap == Init /\ [][NextOverlap]_vars

\* C35: a status that carries the sessionId of the second call holds only
\* what the second call has done, which is to initialise: no ledger record,
\* no turn and no finalResult of the first call.
C35_StatusHoldsItsOwnExecution ==
    currentStatus.sessionId \in OverlapSessionIds
    => /\ currentStatus.toolCalls = <<>>
       /\ currentStatus.progress.currentTurn = 0
       /\ currentStatus.finalResult = None
       /\ currentStatus.sessionState = "initializing"

\* C36: when executeTask has resolved, every record of the ledger is
\* completed or error.
C36_NoRecordLeftOpen ==
    pc = "done"
    => \A i \in 1..Len(currentStatus.toolCalls) :
          currentStatus.toolCalls[i].status \in {"completed", "error"}

\* C37: when executeTask has resolved with success = false, a finalResult in
\* the last published status has success = false.
C37_FailureLeavesNoSuccessfulFinalResult ==
    (pc = "done" /\ result # None /\ ~result[1].success
        /\ currentStatus.finalResult # None)
    => ~currentStatus.finalResult[1].success

\* C39: when the send of a tool-feedback message fails and the task goes
\* on, the feedback is still the message to be sent.
C39_ToolFeedbackIsDelivered ==
    [][(pc = "send" /\ currentMessages.kind = "toolFeedback" /\ pc' = "loopTop")
       => currentMessages' = currentMessages]_vars

\* C38: in the event-driven engine every execution emits exactly one
\* completion event, and its success flag is that of the TaskResult.
C38_OneCompletionEvent ==
    (pc = "done" /\ result # None)
    => /\ Len(completions) = 1
       /\ completions[1] = result[1].success

\* the text the tool returned, in the error message of its record
ErrorTextOf(record) == SubSeq(record.error[1], 4, Len(record.error[1]))

\* the patterns a run classifies with
PatternsOf(kind) == IF kind = "mock" THEN {"fatal_error"} ELSE DefaultFatalPatterns

\* C40: whether a tool error ends the task depends on the error text and the
\* patterns only, so it is what the same text gives under a tool name that
\* matches no pattern: fatal exactly when the text matches a fatal pattern.
C40_FatalityIgnoresToolName ==
    [][(ToolErrorReturned /\ strategy \in {"none", "mock"})
       => ((pc' = "toolFatal")
           <=> \E pattern \in PatternsOf(strategy) :
                  Test(pattern, ErrorTextOf(RecordOf(currentStatus'.toolCalls))))]_vars

====
